---- MODULE Spec2Model ----
(***************************************************************************)
(* Model of the version tracker: the polling loop of tracker.Tracker       *)
(* (Start / mainLoop / Close), one scrape cycle of the macOS catalog       *)
(* (ScrapeForMacVersions down to the locked compare-and-replace of         *)
(* updateOSVersionsMapFromProductMap), the caller in main, and an external *)
(* reader going through ReadVersions.                                      *)
(*                                                                         *)
(* Goroutines are interleaved at the granularity of their accesses to      *)
(* shared memory (the mutex, the entry's LatestVersions and LastModified,  *)
(* the wait groups, the context and the ticker channel); everything a      *)
(* goroutine does on its own locals between two such accesses is one step. *)
(***************************************************************************)
EXTENDS Integers, Sequences, FiniteSets, TLC

\* ------------------------------------------------------------- bounds
\* Largest value the wall clock (time.Now) reaches; the zero time.Time is 0.
MaxClock == 2
\* Largest number of product entries in a catalog's Products dictionary.
MaxProducts == 2
\* Largest number of scrape cycles the polling loop is followed through.
MaxCycles == 2

\* ---------------------------------------------------- program constants
\* len(MacCatalogs): the catalogs ScrapeForMacVersions ranges over.
NumCatalogs == 1
Catalogs == 1..NumCatalogs

OSTypeMac == "macOS"
OSTypeWindows == "windows"
OSTypeLinux == "linux"
OSTypes == {OSTypeMac, OSTypeWindows, OSTypeLinux}

versionNameElCapitan == "ElCapitan"
versionNameSierra == "Sierra"
versionNameHighSierra == "HighSierra"
Branches == {versionNameElCapitan, versionNameSierra, versionNameHighSierra}

\* A version string is the sequence of its dot-separated segments; a segment
\* that is not a decimal number is written -1 ("10.x" is <<10, -1>>).
\* version1011 with a wrong minor number.
version1010 == <<10, 10, 0>>
version1011 == <<10, 11, 0>>
version1012 == <<10, 12, 0>>
version1013 == <<10, 13, 0>>

\* ------------------------------------------------- go-version operators
\* version.NewVersion pads the parsed segments with zeros up to three.
Pad(s) == s \o [i \in 1..(3 - Len(s)) |-> 0]

\* version.NewVersion: the segments of a well-formed string, an error otherwise.
NewVersion(s) ==
    IF Len(s) = 0 \/ \E i \in 1..Len(s) : s[i] < 0
    THEN [ok |-> FALSE, v |-> <<>>]
    ELSE [ok |-> TRUE, v |-> Pad(s)]

RECURSIVE CompareFrom(_, _, _)
CompareFrom(a, b, i) ==
    IF i > Len(a) THEN 0
    ELSE IF a[i] < b[i] THEN -1
    ELSE IF a[i] > b[i] THEN 1
    ELSE CompareFrom(a, b, i + 1)

\* Version.Compare on parsed versions: numeric, segment by segment.
Compare(a, b) == CompareFrom(a, b, 1)

LessThan(a, b) == Compare(a, b) < 0
GreaterThan(a, b) == Compare(a, b) > 0

elCapitanMajor == NewVersion(version1011).v
sierraMajor == NewVersion(version1012).v
highSierraMajor == NewVersion(version1013).v

\* ------------------------------------------------------ network inputs
\* The version strings a distribution document may declare.
VersionStrings ==
    { <<10, 10, 5>>, <<10, 11>>, <<10, 11, 6>>, <<10, 13>>,
      <<10, 13, 6>>, <<10, 14, 1>>, <<10, -1>> }

\* The one status both fetches go on with; any other short-circuits.
StatusOK == 200
\* The statuses a server answers with: 200, and 304 for "not modified".
Statuses == {StatusOK, 304}

TitlePrefixes == {"macOS 10", "macOS Sierra", "OS X"}
DiscardWords == {"Mavericks", "Recovery", "Installer", "Mail"}

\* What makeRequest and the read of the body give for a distribution URL:
\* err is the transport error, readOk the outcome of ioutil.ReadAll, the
\* title is SU_TITLE's leading words and its remainder, hasVer tells whether
\* the body holds an SU_VERS / SU_VERSION assignment and ver is its value.
DistDoc(prefix, rest, hasVer, ver) ==
    [err |-> FALSE, status |-> StatusOK, readOk |-> TRUE,
     titlePrefix |-> prefix, titleRest |-> rest, hasVer |-> hasVer, ver |-> ver]

DistResponses ==
    { [DistDoc("macOS 10", <<>>, FALSE, <<>>) EXCEPT !.err = TRUE],
      [DistDoc("macOS 10", <<>>, FALSE, <<>>) EXCEPT !.status = 304],
      [DistDoc("macOS 10", <<>>, FALSE, <<>>) EXCEPT !.readOk = FALSE],
      DistDoc("iTunes", <<>>, TRUE, <<12, 8>>),
      DistDoc("OS X", <<"Recovery", "Update">>, TRUE, <<10, 13, 6>>),
      DistDoc("macOS Sierra", <<"Update">>, FALSE, <<>>),
      DistDoc("Safari", <<>>, FALSE, <<>>) }
    \cup { DistDoc("macOS 10", <<"Update">>, TRUE, s) : s \in VersionStrings }

ProductKeys == 1..MaxProducts
\* A product entry of the catalog: "url" passes the three type assertions of
\* the loop (a dictionary, with a Distributions dictionary, with an English
\* string), "nourl" fails one of them.
ProductShapes == {"nourl", "url"}
ProductMaps == UNION { [K -> ProductShapes] : K \in SUBSET ProductKeys }

\* The decoded catalog: kind is what plist.Unmarshal gives at top level
\* ("garbage" does not decode, "array" decodes to something that is not a
\* dictionary); products is the value under "Products" when it is a dictionary.
CatalogBody(kind, productsOk, products) ==
    [kind |-> kind, productsOk |-> productsOk, products |-> products]

Empty == [k \in {} |-> "url"]

CatalogResponse(err, status, readOk, body) ==
    [err |-> err, status |-> status, readOk |-> readOk, body |-> body]

CatalogResponses ==
    { CatalogResponse(TRUE, StatusOK, TRUE, CatalogBody("garbage", FALSE, Empty)),
      CatalogResponse(FALSE, StatusOK, FALSE, CatalogBody("garbage", FALSE, Empty)),
      CatalogResponse(FALSE, StatusOK, TRUE, CatalogBody("garbage", FALSE, Empty)),
      CatalogResponse(FALSE, StatusOK, TRUE, CatalogBody("array", FALSE, Empty)),
      CatalogResponse(FALSE, StatusOK, TRUE, CatalogBody("dict", FALSE, Empty)) }
    \cup { CatalogResponse(FALSE, st, TRUE, CatalogBody("dict", TRUE, p)) :
             st \in Statuses, p \in ProductMaps }

\* ------------------------------------------------------------- state
VARIABLES
    osVersionsMap,  \* t.osVersionsMap: OS type -> [LatestVersions, LastModified]
    mtx,            \* t.mtx: w is the goroutine holding Lock (0: none), r the RLock count
    now,            \* the last value time.Now returned
    ctxDone,        \* the context handed to Start has been cancelled
    wg,             \* counter of t.wg
    mainpc,         \* position of main's action
    startpc,        \* position of the goroutine running Start
    ticker,         \* the ticker of mainLoop: "none", "on" or "stopped"
    tick,           \* a value is waiting in timer.C
    swg,            \* counter of the wait group local to ScrapeForMacVersions
    cycles,         \* calls of ScrapeForMacVersions so far
    panicked,       \* a goroutine panicked: the process is gone
    pc,             \* position of each scrape goroutine
    loc,            \* locals of each scrape goroutine
    gh,             \* history of each scrape goroutine's current cycle
    offeredMax,     \* history: see MergeLock
    skew,           \* history: see Skew below
    rpc,            \* position of the external reader
    ros,            \* the OS type it calls ReadVersions with
    rptr,           \* what ReadVersions returned to it ("nil": no entry)
    rLV, rLM,       \* the fields it read through the pointer
    rseen,          \* which of the two fields it has read
    zone,           \* offset of the process's local time from UTC
    probe           \* the product entries PlaceEntries went through

storeVars == <<osVersionsMap, mtx, now, skew>>
loopVars == <<ctxDone, wg, mainpc, startpc, ticker, tick, swg, cycles>>
scrVars == <<pc, loc, gh, offeredMax, panicked>>
rdrVars == <<rpc, ros, rptr, rLV, rLM, rseen>>
envVars == <<zone, probe>>
vars == <<storeVars, loopVars, scrVars, rdrVars, envVars>>

\* A Go map from branch name to version: a function on the keys present.
EmptyMap == [b \in {} |-> <<>>]
MapSet(m, k, v) == [b \in DOMAIN m \cup {k} |-> IF b = k THEN v ELSE m[b]]

\* MakeTracker stamping the entries with the time of their creation.
MakeTrackerStamped ==
    [os \in OSTypes |-> [LatestVersions |-> EmptyMap, LastModified |-> 1]]

\* MakeTracker: an entry with an empty map and the zero time for every OS type.
MakeTracker ==
    [os \in OSTypes |-> [LatestVersions |-> EmptyMap, LastModified |-> 0]]

Unread == [b \in {} |-> <<>>]

InitLoc ==
    [lastModified |-> 0, productsMap |-> Empty, v1 |-> <<>>, branch |-> "none",
     changed |-> FALSE, updated |-> FALSE, err |-> FALSE]

\* The response to the catalog request without its Products: what the
\* catalog-level step of a cycle was given.
Summary(r) ==
    [err |-> r.err, status |-> r.status, readOk |-> r.readOk,
     kind |-> r.body.kind, productsOk |-> r.body.productsOk]
NoResponse ==
    [err |-> FALSE, status |-> 0, readOk |-> FALSE, kind |-> "none", productsOk |-> FALSE]

NoSnap == [held |-> FALSE, entry |-> MakeTracker[OSTypeMac], changed |-> FALSE]

\* The order of versions, written out on the three segments.
Below(a, b) ==
    \/ a[1] < b[1]
    \/ a[1] = b[1] /\ a[2] < b[2]
    \/ a[1] = b[1] /\ a[2] = b[2] /\ a[3] < b[3]

\* The history kept for a cycle: the entry as it was when the cycle began, the
\* catalog response, whether a distribution URL was requested, the entries of
\* the catalog, the iterations of the loop made, the entries whose
\* branch-level step failed and those that gave a version, whether one of
\* these versions was below the oldest major version, the greatest
\* version per branch among the entry as it was and the versions given
\* (expSucc), whether an entry gave a version at or above 10.11.0 and its
\* iteration ended with no merge under any branch (lost), the response
\* bodies makeRequest has handed over that have not been closed (open), and
\* the entry and the changed flag as they were when the merge in progress
\* took the lock.
InitGh ==
    [pre |-> MakeTracker[OSTypeMac], resp |-> NoResponse, fetched |-> FALSE, n |-> 0,
     visited |-> 0, nFail |-> 0, nSucc |-> 0, old |-> FALSE,
     expSucc |-> EmptyMap, lost |-> FALSE, open |-> 0, snap |-> NoSnap]

\* The map m with v under b, unless m already has a version at least v there.
MaxInto(m, b, v) ==
    IF b \in DOMAIN m /\ Compare(m[b], v) >= 0 THEN m ELSE MapSet(m, b, v)

InitTracker ==
    /\ osVersionsMap = MakeTracker
    /\ mtx = [w |-> 0, r |-> 0]
    /\ now = 1
    /\ ctxDone = FALSE
    /\ wg = 0
    /\ mainpc = "go"
    /\ startpc = "none"
    /\ ticker = "none"
    /\ tick = FALSE
    /\ swg = 0
    /\ cycles = 0
    /\ panicked = FALSE
    /\ pc = [g \in Catalogs |-> "idle"]
    /\ loc = [g \in Catalogs |-> InitLoc]
    /\ gh = [g \in Catalogs |-> InitGh]
    /\ offeredMax = EmptyMap
    /\ skew = 0
    /\ rpc = "idle"
    /\ ros = "nil"
    /\ rptr = "nil"
    /\ rLV = Unread
    /\ rLM = 0
    /\ rseen = {}
    /\ probe = <<>>

\* The process runs with UTC as its local time.
Init == InitTracker /\ zone = 0

\* The offsets of local time from UTC, in units of the clock.
Zones == {-1, 0, 1}

\* The process runs in any time zone.
InitZ == InitTracker /\ zone \in Zones

\* The instant the If-Modified-Since header of makeRequest denotes:
\* lastModified.Format("Mon, 2 Jan 2006 15:04:05 GMT") prints the wall clock
\* of the value's own location followed by the letters GMT. The zero
\* time.Time is in UTC; a value of time.Now() is in local time, whose wall
\* clock is ahead of UTC by the zone's offset.
IfModifiedSince(lastModified) ==
    IF lastModified = 0 THEN 0 ELSE lastModified + zone

\* The process lives until main returns or a goroutine panics.
Alive == mainpc # "exited" /\ ~panicked

\* ------------------------------------------------- the scrape functions
\* The response bodies a request answered with r opens: makeRequest returns
\* the response of client.Do, whose Body is open, unless the transport failed.
Opened(r) == IF r.err THEN 0 ELSE 1

\* The response bodies the handling of r closes: getLatestVersion,
\* updateOSVersionsMap and parseCatalogResponse read resp.Body on some paths
\* and call resp.Body.Close() on none.
Closed(r) == 0


\* getLatestVersion looking for the version before it looks at the title.
getLatestVersionVersionFirst(r) ==
    IF r.err THEN [ver |-> <<>>, err |-> TRUE]
    ELSE IF r.status # StatusOK THEN [ver |-> <<>>, err |-> FALSE]
    ELSE IF ~r.readOk THEN [ver |-> <<>>, err |-> TRUE]
    ELSE IF ~r.hasVer THEN [ver |-> <<>>, err |-> TRUE]
    ELSE IF r.titlePrefix \notin TitlePrefixes THEN [ver |-> <<>>, err |-> FALSE]
    ELSE IF \E i \in 1..Len(r.titleRest) : r.titleRest[i] \in DiscardWords
         THEN [ver |-> <<>>, err |-> FALSE]
    ELSE [ver |-> r.ver, err |-> FALSE]

\* getLatestVersion on the response to the request of a distribution URL: the
\* version string it returns (<<>> is "") and whether it returns an error.
getLatestVersion(r) ==
    IF r.err THEN [ver |-> <<>>, err |-> TRUE]
    ELSE IF r.status # StatusOK THEN [ver |-> <<>>, err |-> FALSE]
    ELSE IF ~r.readOk THEN [ver |-> <<>>, err |-> TRUE]
    ELSE IF r.titlePrefix \notin TitlePrefixes THEN [ver |-> <<>>, err |-> FALSE]
    ELSE IF \E i \in 1..Len(r.titleRest) : r.titleRest[i] \in DiscardWords
         THEN [ver |-> <<>>, err |-> FALSE]
    ELSE IF ~r.hasVer THEN [ver |-> <<>>, err |-> TRUE]
    ELSE [ver |-> r.ver, err |-> FALSE]

\* MergeBranch with the arms of the chain in ascending order: the first test
\* takes every version above 10.11.0.
MergeBranchAscending(v1) ==
    IF GreaterThan(v1, elCapitanMajor) THEN versionNameElCapitan
    ELSE IF GreaterThan(v1, sierraMajor) THEN versionNameSierra
    ELSE IF GreaterThan(v1, highSierraMajor) THEN versionNameHighSierra
    ELSE "none"

\* The branch the if / else-if chain of updateOSVersionsMapFromProductMap
\* merges a version under ("none": no arm of the chain takes it).
MergeBranch(v1) ==
    IF GreaterThan(v1, highSierraMajor) THEN versionNameHighSierra
    ELSE IF GreaterThan(v1, sierraMajor) THEN versionNameSierra
    ELSE IF GreaterThan(v1, elCapitanMajor) THEN versionNameElCapitan
    ELSE "none"

\* ShouldReplace without its test: every candidate is stored.
ShouldReplaceAlways(latest, branch, v1) == TRUE

\* ShouldReplace with the comparison turned round.
ShouldReplaceLess(latest, branch, v1) ==
    branch \notin DOMAIN latest \/ LessThan(v1, latest[branch])

\* ShouldReplace with "greater than or equal" for "greater than".
ShouldReplaceOrEqual(latest, branch, v1) ==
    branch \notin DOMAIN latest \/ ~LessThan(v1, latest[branch])

\* The test made under the lock: the branch has no version yet, or the
\* candidate is greater than the one stored.
ShouldReplace(latest, branch, v1) ==
    branch \notin DOMAIN latest \/ GreaterThan(v1, latest[branch])

\* What one iteration of the loop over productsMap does with an entry of the
\* given shape, r being the response to the request of its distribution URL:
\* "skip" (the entry has no English distribution), "fail" (getLatestVersion or
\* NewVersion returned an error), "absent" (no version string), "old" (below
\* the oldest major version), "merge" (go on to the chain) with v1 the version.
EntryStep(shape, r) ==
    IF shape # "url" THEN [kind |-> "skip", v1 |-> <<>>]
    ELSE LET got == getLatestVersion(r)
             parsed == NewVersion(got.ver)
         IN  IF got.err THEN [kind |-> "fail", v1 |-> <<>>]
             ELSE IF got.ver = <<>> THEN [kind |-> "absent", v1 |-> <<>>]
             ELSE IF ~parsed.ok THEN [kind |-> "fail", v1 |-> <<>>]
             ELSE IF LessThan(parsed.v, elCapitanMajor)
                  THEN [kind |-> "old", v1 |-> parsed.v]
             ELSE [kind |-> "merge", v1 |-> parsed.v]

\* Where one iteration of the loop places the entry under key k: the version
\* its document gives and the branch whose arm of the chain takes it ("none":
\* the iteration ends without a merge). The key is used for the log entries
\* only.
Placement(k, shape, r) ==
    LET e == EntryStep(shape, r) IN
    [key |-> k, kind |-> e.kind, v1 |-> e.v1,
     branch |-> IF e.kind = "merge" THEN MergeBranch(e.v1) ELSE "none"]

\* The entries still to visit after the iteration over key k: whatever the
\* kind of its outcome, the loop goes on with the others (continue, or the end
\* of the loop's body).
Continue(m, k, kind) == [j \in DOMAIN m \ {k} |-> m[j]]

\* CatalogStep without the test of the status.
CatalogStepNoStatus(r) ==
    IF r.err THEN "transport"
    ELSE IF ~r.readOk THEN "readerr"
    ELSE IF r.body.kind = "garbage" THEN "undecodable"
    ELSE IF r.body.kind # "dict" THEN "panic"
    ELSE IF ~r.body.productsOk THEN "noproducts"
    ELSE "ok"

\* How the catalog-level part of updateOSVersionsMap ends on response r:
\* "transport" (makeRequest failed), "non200", "readerr" and "undecodable"
\* (parseCatalogResponse failed), "panic" (the type assertion on a catalog that
\* is not a dictionary), "noproducts" (no Products dictionary), "ok".
CatalogStep(r) ==
    IF r.err THEN "transport"
    ELSE IF r.status # StatusOK THEN "non200"
    ELSE IF ~r.readOk THEN "readerr"
    ELSE IF r.body.kind = "garbage" THEN "undecodable"
    ELSE IF r.body.kind # "dict" THEN "panic"
    ELSE IF ~r.body.productsOk THEN "noproducts"
    ELSE "ok"

\* The catalog-level outcomes on which updateOSVersionsMap returns an error.
CatalogErrors == {"transport", "readerr", "undecodable", "noproducts"}

\* ------------------------------------------------------------- main
\* go versionTracker.Start(ctx)
MainGo ==
    /\ Alive /\ mainpc = "go"
    /\ mainpc' = "wait"
    /\ startpc' = "start"
    /\ UNCHANGED <<storeVars, ctxDone, wg, ticker, tick, swg, cycles, scrVars, rdrVars, envVars>>

\* <-done; cancel()
MainCancel ==
    /\ Alive /\ mainpc = "wait"
    /\ mainpc' = "close"
    /\ ctxDone' = TRUE
    /\ UNCHANGED <<storeVars, wg, startpc, ticker, tick, swg, cycles, scrVars, rdrVars, envVars>>

\* versionTracker.Close() returns once the counter of t.wg is zero; the action
\* then returns and the process exits.
MainClose ==
    /\ Alive /\ mainpc = "close"
    /\ wg = 0
    /\ mainpc' = "exited"
    /\ UNCHANGED <<storeVars, ctxDone, wg, startpc, ticker, tick, swg, cycles, scrVars, rdrVars, envVars>>

\* ------------------------------------------------- Start and mainLoop
\* ScrapeForMacVersions up to wg.Wait: one goroutine per catalog.
Launch ==
    /\ swg' = NumCatalogs
    /\ cycles' = cycles + 1
    /\ pc' = [g \in Catalogs |-> "begin"]
    /\ offeredMax' = osVersionsMap[OSTypeMac].LatestVersions

\* t.wg.Add(1), the first statement of Start.
StartAdd ==
    /\ Alive /\ startpc = "start"
    /\ wg' = wg + 1
    /\ startpc' = "first"
    /\ UNCHANGED <<storeVars, ctxDone, mainpc, ticker, tick, swg, cycles, scrVars, rdrVars, envVars>>

\* FirstScrape without the call: mainLoop goes straight to its ticker and its
\* loop, and scrapes for the first time on the first tick.
FirstScrapeNone ==
    /\ Alive /\ startpc = "first"
    /\ startpc' = "wait"
    /\ UNCHANGED <<storeVars, ctxDone, wg, mainpc, ticker, tick, swg, cycles, scrVars,
                   rdrVars, envVars>>

\* The call of ScrapeForMacVersions mainLoop makes before its loop.
FirstScrape ==
    /\ Alive /\ startpc = "first"
    /\ Launch
    /\ startpc' = "wait"
    /\ UNCHANGED <<storeVars, ctxDone, wg, mainpc, ticker, tick, loc, gh, panicked, rdrVars, envVars>>

\* wg.Wait of ScrapeForMacVersions returns; after the first call mainLoop
\* creates its ticker; then it is at the select.
ScrapeWait ==
    /\ Alive /\ startpc = "wait"
    /\ swg = 0
    /\ ticker' = IF ticker = "none" THEN "on" ELSE ticker
    /\ startpc' = "select"
    /\ UNCHANGED <<storeVars, ctxDone, wg, mainpc, tick, swg, cycles, scrVars, rdrVars, envVars>>

\* The ticker puts a value in its channel of capacity one. Only the select of
\* mainLoop looks at the channel, so a value sent while a scrape is running is
\* taken as sent when the loop is back at its select.
TimerFire ==
    /\ Alive /\ ticker = "on" /\ ~tick
    /\ startpc = "select"
    /\ tick' = TRUE
    /\ UNCHANGED <<storeVars, ctxDone, wg, mainpc, startpc, ticker, swg, cycles, scrVars, rdrVars, envVars>>

\* case <-ctx.Done(): timer.Stop(), return, and the deferred t.wg.Done().
SelectDone ==
    /\ Alive /\ startpc = "select"
    /\ ctxDone
    /\ ticker' = "stopped"
    /\ wg' = wg - 1
    /\ startpc' = "done"
    /\ UNCHANGED <<storeVars, ctxDone, mainpc, tick, swg, cycles, scrVars, rdrVars, envVars>>

\* case <-timer.C: the next call of ScrapeForMacVersions.
SelectTick ==
    /\ Alive /\ startpc = "select"
    /\ tick
    /\ cycles < MaxCycles
    /\ tick' = FALSE
    /\ Launch
    /\ startpc' = "wait"
    /\ UNCHANGED <<storeVars, ctxDone, wg, mainpc, ticker, loc, gh, panicked, rdrVars, envVars>>

\* ------------------------------------------------ a scrape goroutine
Mac == osVersionsMap[OSTypeMac]

\* updateOSVersionsMap up to the request: the entry's LastModified is read
\* (without the lock) as the precondition of this cycle's fetches.
ScrapeBegin(g) ==
    /\ Alive /\ pc[g] = "begin"
    /\ loc' = [loc EXCEPT ![g] = [InitLoc EXCEPT !.lastModified = Mac.LastModified]]
    /\ gh' = [gh EXCEPT ![g] = [InitGh EXCEPT !.pre = Mac,
                                               !.expSucc = Mac.LatestVersions]]
    /\ pc' = [pc EXCEPT ![g] = "catReq"]
    /\ UNCHANGED <<storeVars, loopVars, offeredMax, panicked, rdrVars, envVars>>

\* The request of the catalog, the status test, parseCatalogResponse and the
\* head of updateOSVersionsMapFromProductMap (the type assertions on the
\* catalog and on its Products).
CatalogFetch(g) ==
    /\ Alive /\ pc[g] = "catReq"
    /\ \E r \in CatalogResponses :
         LET out == CatalogStep(r) IN
         /\ gh' = [gh EXCEPT ![g].resp = Summary(r),
                             ![g].open = @ + Opened(r) - Closed(r),
                             ![g].n = IF out = "ok"
                                      THEN Cardinality(DOMAIN r.body.products) ELSE 0]
         /\ panicked' = (out = "panic")
         /\ loc' = [loc EXCEPT ![g].productsMap =
                                   IF out = "ok" THEN r.body.products ELSE Empty,
                               ![g].updated = FALSE,
                               ![g].err = (out \in CatalogErrors)]
         /\ pc' = [pc EXCEPT ![g] = CASE out = "ok" -> "loop"
                                      [] out = "panic" -> "panic"
                                      [] OTHER -> "log"]
    /\ UNCHANGED <<storeVars, loopVars, offeredMax, rdrVars, envVars>>

\* One iteration of the loop over productsMap, in the order the map's
\* iteration happens to take, up to the branch's Lock; or the return of
\* changed when no entry is left.
LoopStep(g) ==
    /\ Alive /\ pc[g] = "loop"
    /\ \/ /\ DOMAIN loc[g].productsMap = {}
          /\ loc' = [loc EXCEPT ![g].updated = loc[g].changed, ![g].err = FALSE]
          /\ pc' = [pc EXCEPT ![g] = "log"]
          /\ gh' = gh
       \/ \E k \in DOMAIN loc[g].productsMap, r \in DistResponses :
            LET shape == loc[g].productsMap[k]
                e == EntryStep(shape, r)
                b == Placement(k, shape, r).branch
                ok == e.kind \in {"old", "merge"}
            IN
            /\ gh' = [gh EXCEPT
                        ![g].fetched = @ \/ shape = "url",
                        ![g].visited = @ + 1,
                        ![g].nFail = @ + (IF e.kind = "fail" THEN 1 ELSE 0),
                        ![g].nSucc = @ + (IF ok THEN 1 ELSE 0),
                        ![g].old = @ \/ e.kind = "old",
                        ![g].open = IF shape = "url"
                                    THEN @ + Opened(r) - Closed(r) ELSE @,
                        ![g].lost = @ \/ ( /\ ok /\ b = "none"
                                           /\ ~Below(e.v1, <<10, 11, 0>>) ),
                        ![g].expSucc = IF ok /\ MergeBranch(e.v1) # "none"
                                       THEN MaxInto(@, MergeBranch(e.v1), e.v1) ELSE @]
            /\ loc' = [loc EXCEPT ![g].productsMap = Continue(@, k, e.kind),
                                  ![g].v1 = IF b # "none" THEN e.v1 ELSE <<>>,
                                  ![g].branch = b]
            /\ pc' = [pc EXCEPT ![g] = IF b # "none" THEN "lock" ELSE "loop"]
    /\ UNCHANGED <<storeVars, loopVars, offeredMax, panicked, rdrVars, envVars>>

\* Skew compares the reader's view of the macOS entry with the writes made to
\* it: the writes of a branch version its view of LatestVersions includes,
\* minus the writes of LastModified its view of LastModified includes, where
\* the view of a field is what the reader read, or what it would read now if
\* it has not read the field. A write changes the view of a field not yet
\* read. The difference is kept within -1..1: with one field read it moves one
\* way only, so once it leaves 0 on that side it never comes back.
SkewAfterVersion == IF "LV" \in rseen \/ skew = 1 THEN skew ELSE skew + 1
SkewAfterModified == IF "LM" \in rseen \/ skew = -1 THEN skew ELSE skew - 1

\* t.mtx.Lock() and the test on the branch's stored version. offeredMax keeps,
\* per branch, the greatest version among the one stored when the calls of
\* ScrapeForMacVersions in progress began and the candidates that have taken
\* the lock since.
MergeLock(g) ==
    /\ Alive /\ pc[g] = "lock"
    /\ mtx.w = 0 /\ mtx.r = 0
    /\ mtx' = [mtx EXCEPT !.w = g]
    /\ gh' = [gh EXCEPT ![g].snap = [held |-> TRUE, entry |-> Mac,
                                           changed |-> loc[g].changed]]
    /\ offeredMax' = MaxInto(offeredMax, loc[g].branch, loc[g].v1)
    /\ pc' = [pc EXCEPT ![g] =
                IF ShouldReplace(Mac.LatestVersions, loc[g].branch, loc[g].v1)
                THEN "wver" ELSE "unlock"]
    /\ UNCHANGED <<osVersionsMap, now, skew, loopVars, loc, panicked, rdrVars, envVars>>

\* versionsInfo.LatestVersions[branch] = v1
MergeWriteVersion(g) ==
    /\ Alive /\ pc[g] = "wver"
    /\ osVersionsMap' = [osVersionsMap EXCEPT ![OSTypeMac].LatestVersions =
                            MapSet(@, loc[g].branch, loc[g].v1)]
    /\ skew' = SkewAfterVersion
    /\ pc' = [pc EXCEPT ![g] = "wmod"]
    /\ UNCHANGED <<mtx, now, loopVars, loc, gh, offeredMax, panicked, rdrVars, envVars>>

\* TimeNow with a time that does not come from the clock (a time taken from
\* the response, say): any time, earlier ones included.
TimeFromResponse == 1..MaxClock

\* What time.Now() may return: the wall clock does not go back.
TimeNow == now..MaxClock

\* MergeWriteModified without the assignment changed = true.
MergeWriteModifiedNoFlag(g) ==
    /\ Alive /\ pc[g] = "wmod"
    /\ \E t \in TimeNow :
         /\ now' = t
         /\ osVersionsMap' = [osVersionsMap EXCEPT ![OSTypeMac].LastModified = t]
    /\ skew' = SkewAfterModified
    /\ pc' = [pc EXCEPT ![g] = "unlock"]
    /\ UNCHANGED <<mtx, loopVars, loc, gh, offeredMax, panicked, rdrVars, envVars>>

\* versionsInfo.LastModified = time.Now(); changed = true
MergeWriteModified(g) ==
    /\ Alive /\ pc[g] = "wmod"
    /\ \E t \in TimeNow :
         /\ now' = t
         /\ osVersionsMap' = [osVersionsMap EXCEPT ![OSTypeMac].LastModified = t]
    /\ skew' = SkewAfterModified
    /\ loc' = [loc EXCEPT ![g].changed = TRUE]
    /\ pc' = [pc EXCEPT ![g] = "unlock"]
    /\ UNCHANGED <<mtx, loopVars, gh, offeredMax, panicked, rdrVars, envVars>>

\* MergeUnlock going on to the next entry without the Unlock when the
\* candidate was not stored.
MergeUnlockKeep(g) ==
    /\ Alive /\ pc[g] = "unlock"
    /\ mtx' = IF loc[g].changed = gh[g].snap.changed THEN mtx ELSE [mtx EXCEPT !.w = 0]
    /\ loc' = [loc EXCEPT ![g].v1 = <<>>, ![g].branch = "none"]
    /\ gh' = [gh EXCEPT ![g].snap = NoSnap]
    /\ pc' = [pc EXCEPT ![g] = "loop"]
    /\ UNCHANGED <<osVersionsMap, now, skew, loopVars, offeredMax, panicked, rdrVars, envVars>>

\* t.mtx.Unlock()
MergeUnlock(g) ==
    /\ Alive /\ pc[g] = "unlock"
    /\ mtx' = [mtx EXCEPT !.w = 0]
    /\ loc' = [loc EXCEPT ![g].v1 = <<>>, ![g].branch = "none"]
    /\ gh' = [gh EXCEPT ![g].snap = NoSnap]
    /\ pc' = [pc EXCEPT ![g] = "loop"]
    /\ UNCHANGED <<osVersionsMap, now, skew, loopVars, offeredMax, panicked, rdrVars, envVars>>

\* scrapeForMacVersions after updateOSVersionsMap returned: the log entry
\* (which reads the entry's fields without the lock) and the deferred wg.Done().
ScrapeLog(g) ==
    /\ Alive /\ pc[g] = "log"
    /\ swg' = swg - 1
    /\ loc' = [loc EXCEPT ![g] = InitLoc]
    /\ gh' = [gh EXCEPT ![g] = InitGh]
    /\ pc' = [pc EXCEPT ![g] = "idle"]
    /\ UNCHANGED <<storeVars, ctxDone, wg, mainpc, startpc, ticker, tick, cycles,
                   offeredMax, panicked, rdrVars, envVars>>

Next ==
    \/ MainGo \/ MainCancel \/ MainClose
    \/ StartAdd \/ FirstScrape \/ ScrapeWait \/ TimerFire \/ SelectDone \/ SelectTick
    \/ \E g \in Catalogs :
         \/ ScrapeBegin(g) \/ CatalogFetch(g) \/ LoopStep(g)
         \/ MergeLock(g) \/ MergeWriteVersion(g) \/ MergeWriteModified(g)
         \/ MergeUnlock(g) \/ ScrapeLog(g)

Spec == Init /\ [][Next]_vars

\* The loop's body applied to two product entries with a distribution URL,
\* of any keys and with any documents behind their URLs; each placement is
\* kept together with the document it came from.
PlaceEntries ==
    \E k1 \in ProductKeys, k2 \in ProductKeys, r1 \in DistResponses, r2 \in DistResponses :
        /\ probe' = << Placement(k1, "url", r1) @@ [doc |-> r1],
                       Placement(k2, "url", r2) @@ [doc |-> r2] >>
        /\ UNCHANGED <<storeVars, loopVars, scrVars, rdrVars, zone>>

\* The placement of entries on its own, apart from the cycles.
SpecB == Init /\ [][PlaceEntries]_vars

\* The tracker in any time zone.
SpecZ == InitZ /\ [][Next]_vars

\* The steps of the goroutine of Start: wg.Add, the first scrape, the return
\* of wg.Wait, and the return on ctx.Done with its deferred wg.Done.
StartSteps == StartAdd \/ FirstScrape \/ ScrapeWait \/ SelectDone

\* The steps of the scrape goroutine of catalog g; CatalogFetch and LoopStep
\* are the returns of its requests.
ScrapeSteps(g) ==
    \/ ScrapeBegin(g) \/ CatalogFetch(g) \/ LoopStep(g)
    \/ MergeLock(g) \/ MergeWriteVersion(g) \/ MergeWriteModified(g)
    \/ MergeUnlock(g) \/ ScrapeLog(g)

\* The tracker under the scheduling the Go runtime gives: a goroutine that can
\* take a step takes one (main once cancel() is called, the goroutine of
\* Start, the scrape goroutines, whose requests all return), and a select
\* whose ctx.Done() case is ready every time it is reached takes that case in
\* the end, the choice among ready cases being random. Nothing makes the
\* signal arrive or the ticker fire.
SpecL ==
    /\ Init /\ [][Next]_vars
    /\ WF_vars(MainGo) /\ WF_vars(MainClose)
    /\ WF_vars(StartSteps) /\ SF_vars(SelectDone)
    /\ \A g \in Catalogs : WF_vars(ScrapeSteps(g))

\* ------------------------------------------------- an external reader
\* The OS types a reader asks for: the known ones and an unknown one.
ReaderArgs == OSTypes \cup {"bsd"}

\* ReadVersions: t.mtx.RLock()
ReaderRLock ==
    /\ Alive /\ rpc = "idle"
    /\ mtx.w = 0
    /\ \E os \in ReaderArgs : ros' = os
    /\ mtx' = [mtx EXCEPT !.r = @ + 1]
    /\ rpc' = "rlocked"
    /\ UNCHANGED <<osVersionsMap, now, skew, loopVars, scrVars, envVars, rptr, rLV, rLM, rseen>>

\* ReaderReturn putting an empty entry in the table for an identifier that
\* has none, and returning it.
ReaderReturnCreate ==
    /\ Alive /\ rpc = "rlocked"
    /\ osVersionsMap' =
           [os \in DOMAIN osVersionsMap \cup {ros} |->
               IF os \in DOMAIN osVersionsMap THEN osVersionsMap[os]
               ELSE [LatestVersions |-> EmptyMap, LastModified |-> 0]]
    /\ rptr' = ros
    /\ mtx' = [mtx EXCEPT !.r = @ - 1]
    /\ rpc' = "have"
    /\ UNCHANGED <<now, skew, loopVars, scrVars, envVars, ros, rLV, rLM, rseen>>

\* ReadVersions: return t.osVersionsMap[os], a pointer to the entry (nil when
\* the map has none), and the deferred t.mtx.RUnlock().
ReaderReturn ==
    /\ Alive /\ rpc = "rlocked"
    /\ rptr' = IF ros \in DOMAIN osVersionsMap THEN ros ELSE "nil"
    /\ mtx' = [mtx EXCEPT !.r = @ - 1]
    /\ rpc' = "have"
    /\ UNCHANGED <<osVersionsMap, now, skew, loopVars, scrVars, envVars, ros, rLV, rLM, rseen>>

\* The reader reads LatestVersions through the pointer it was returned.
ReaderReadVersions ==
    /\ Alive /\ rpc = "have" /\ rptr # "nil" /\ "LV" \notin rseen
    /\ rLV' = osVersionsMap[rptr].LatestVersions
    /\ rseen' = rseen \cup {"LV"}
    /\ UNCHANGED <<storeVars, loopVars, scrVars, envVars, rpc, ros, rptr, rLM>>

\* The reader reads LastModified through the pointer it was returned.
ReaderReadModified ==
    /\ Alive /\ rpc = "have" /\ rptr # "nil" /\ "LM" \notin rseen
    /\ rLM' = osVersionsMap[rptr].LastModified
    /\ rseen' = rseen \cup {"LM"}
    /\ UNCHANGED <<storeVars, loopVars, scrVars, envVars, rpc, ros, rptr, rLV>>

\* The reader is done with what it read; the view is again the entry itself,
\* which lacks a write of LastModified while a merge is between its two writes.
ReaderDone ==
    /\ Alive /\ rpc = "have"
    /\ rptr = "nil" \/ rseen = {"LV", "LM"}
    /\ rpc' = "idle" /\ ros' = "nil" /\ rptr' = "nil"
    /\ rLV' = Unread /\ rLM' = 0 /\ rseen' = {}
    /\ skew' = IF \E g \in Catalogs : pc[g] = "wmod" THEN 1 ELSE 0
    /\ UNCHANGED <<osVersionsMap, mtx, now, loopVars, scrVars, envVars>>

Reader ==
    ReaderRLock \/ ReaderReturn \/ ReaderReadVersions \/ ReaderReadModified \/ ReaderDone

\* The tracker with a reader beside it.
NextR == Next \/ Reader

SpecR == Init /\ [][NextR]_vars

\* ------------------------------------------------------------ claims
Latest == osVersionsMap[OSTypeMac].LatestVersions

\* A merge holds the lock and has made its test and, if it passed, its writes.
Merged(g) == pc[g] = "unlock" /\ gh[g].snap.held

\* The version the branch of g's merge had when the merge took the lock.
Had(g) == gh[g].snap.entry.LatestVersions[loc[g].branch]

\* The cycle of g has returned from updateOSVersionsMap.
Returned(g) == pc[g] = "log"

\* C1: for every branch, the version stored in LatestVersions is never removed
\* and never decreases, and a step that changes it puts a strictly greater
\* version in its place.
C1_VersionNeverDecreases ==
    [][\A b \in DOMAIN Latest :
          /\ b \in DOMAIN Latest'
          /\ ~Below(Latest'[b], Latest[b])
          /\ Latest'[b] # Latest[b] => Below(Latest[b], Latest'[b])]_vars

\* A merge has replaced a stored version by a greater one.
C1_Witness ==
    \E g \in Catalogs :
        /\ Merged(g)
        /\ loc[g].branch \in DOMAIN gh[g].snap.entry.LatestVersions
        /\ Below(Had(g), Latest[loc[g].branch])

C3_LowerOrEqualIsNoOp ==
    \A g \in Catalogs :
        ( /\ Merged(g)
          /\ loc[g].branch \in DOMAIN gh[g].snap.entry.LatestVersions
          /\ ~Below(Had(g), loc[g].v1) )
        => /\ osVersionsMap[OSTypeMac] = gh[g].snap.entry
           /\ loc[g].changed = gh[g].snap.changed

\* A merge of a candidate equal to the stored version has made its test, in a
\* cycle that has not changed anything.
C3_Witness ==
    \E g \in Catalogs :
        /\ Merged(g)
        /\ loc[g].branch \in DOMAIN gh[g].snap.entry.LatestVersions
        /\ Had(g) = loc[g].v1
        /\ ~loc[g].changed

\* C4: a reader that has read both LatestVersions and LastModified of the macOS
\* entry through the pointer ReadVersions returned has read them as they were
\* between two merges: what it read includes the version write of a merge
\* exactly when it includes that merge's write of LastModified.
C4_NoTornRead ==
    (rptr = OSTypeMac /\ rseen = {"LV", "LM"}) => skew = 0

\* C5: Close has returned only if the goroutine running Start has returned
\* and no scrape goroutine is running.
C5_CloseWaitsForLoop ==
    mainpc = "exited" => (startpc = "done" /\ \A g \in Catalogs : pc[g] = "idle")

\* C6: once the context is cancelled no call of ScrapeForMacVersions begins.
C6_NoCycleAfterCancel ==
    [][ctxDone => cycles' = cycles]_vars

\* C7: a cycle whose catalog request was answered with a status other than 200
\* has requested no distribution URL, has left the entry as it was and returns
\* no update and no error.
C7_Non200ShortCircuits ==
    \A g \in Catalogs :
        (Returned(g) /\ ~gh[g].resp.err /\ gh[g].resp.status # 200)
        => /\ ~gh[g].fetched
           /\ osVersionsMap[OSTypeMac] = gh[g].pre
           /\ ~loc[g].updated /\ ~loc[g].err

\* A cycle that began with versions stored was answered 304 and has returned.
C7_Witness ==
    \E g \in Catalogs :
        /\ Returned(g) /\ ~gh[g].resp.err /\ gh[g].resp.status = 304
        /\ DOMAIN gh[g].pre.LatestVersions # {}

\* The catalog request failed at transport level, or its body could not be
\* read or decoded, or what it decoded to has no Products dictionary (it is a
\* dictionary without one, or it is not a dictionary).
CatalogFailed(g) ==
    \/ gh[g].resp.err
    \/ /\ gh[g].resp.status = 200
       /\ \/ ~gh[g].resp.readOk
          \/ gh[g].resp.kind = "garbage"
          \/ gh[g].resp.kind # "none" /\ ~gh[g].resp.productsOk

\* C8: a cycle whose catalog-level step failed ends: it returns an error and
\* no update, and has left the entry as it was.
C8_CatalogFailureReportsFailure ==
    \A g \in Catalogs :
        (gh[g].resp.kind # "none" /\ CatalogFailed(g))
        => /\ Returned(g)
           /\ loc[g].err /\ ~loc[g].updated
           /\ osVersionsMap[OSTypeMac] = gh[g].pre

\* What holds of the three paths on which updateOSVersionsMap returns an
\* error (transport, read or decode, a dictionary without Products): the
\* cycle returns the error and no update and has left the entry as it was.
ErrorReturnWritesNothing ==
    \A g \in Catalogs :
        (Returned(g) /\ gh[g].resp.kind # "none" /\ CatalogFailed(g))
        => /\ loc[g].err /\ ~loc[g].updated
           /\ osVersionsMap[OSTypeMac] = gh[g].pre

\* The catalog of g's cycle decoded to a dictionary with a Products dictionary.
CatalogDecoded(g) ==
    /\ ~gh[g].resp.err /\ gh[g].resp.status = 200 /\ gh[g].resp.readOk
    /\ gh[g].resp.kind = "dict" /\ gh[g].resp.productsOk

\* C9: a cycle over N entries in which the branch-level step of one entry
\* failed and the other N-1 gave a version returns no error after visiting
\* every entry, and each of the versions at or above 10.11.0 was merged.
C9_SuccessfulVersionsMerged ==
    \A g \in Catalogs :
        ( /\ Returned(g) /\ CatalogDecoded(g)
          /\ gh[g].nFail = 1 /\ gh[g].nSucc = gh[g].n - 1 )
        => /\ ~loc[g].err
           /\ gh[g].visited = gh[g].n
           /\ ~gh[g].lost

\* What holds of a cycle in which branch-level steps failed: it visits every
\* entry, returns no error, and leaves each branch with the greatest version
\* among the one it had and those the chain of the loop placed under it; the
\* failures add nothing and take nothing away.
SiblingsUnaffected ==
    \A g \in Catalogs :
        (Returned(g) /\ CatalogDecoded(g) /\ gh[g].nFail >= 1)
        => /\ ~loc[g].err
           /\ gh[g].visited = gh[g].n
           /\ Latest = gh[g].expSucc

\* C10: no version below 10.11.0 is stored under any branch.
C10_NothingBelowThreshold ==
    \A b \in DOMAIN Latest : ~Below(Latest[b], <<10, 11, 0>>)

\* A cycle in which a document declared a version below the oldest major
\* version, and another a version that was stored, has returned.
C10_Witness ==
    \E g \in Catalogs :
        /\ Returned(g) /\ CatalogDecoded(g)
        /\ gh[g].old /\ loc[g].updated

\* C11: no outcome of a cycle stops the scheduler: whatever answered the
\* catalog request, no goroutine has panicked, and the scrape goroutine is at
\* a position from which it goes on to return to ScrapeForMacVersions.
C11_CycleNeverStopsScheduler ==
    /\ ~panicked
    /\ \A g \in Catalogs :
         gh[g].resp.kind # "none"
         => pc[g] \in {"loop", "lock", "wver", "wmod", "unlock", "log"}

\* C12: round trip over two cycles. The first cycle, fed a catalog with one
\* entry whose document declares 10.13.6, ends with HighSierra at 10.13.6 and
\* updated true; the second cycle sends the LastModified the first wrote as
\* its If-Modified-Since and, answered 304, requests no distribution URL,
\* returns no error and no update and leaves the entry as it was.
C12_SecondCycleShortCircuits ==
    \A g \in Catalogs :
        /\ ( /\ cycles = 1 /\ Returned(g) /\ CatalogDecoded(g)
             /\ gh[g].n = 1 /\ gh[g].nSucc = 1
             /\ gh[g].expSucc = MapSet(EmptyMap, versionNameHighSierra, <<10, 13, 6>>) )
           => /\ Latest = MapSet(EmptyMap, versionNameHighSierra, <<10, 13, 6>>)
              /\ loc[g].updated /\ ~loc[g].err
        /\ ( /\ cycles = 2 /\ pc[g] \notin {"idle", "begin"}
             /\ gh[g].pre.LatestVersions =
                    MapSet(EmptyMap, versionNameHighSierra, <<10, 13, 6>>) )
           => /\ IfModifiedSince(loc[g].lastModified) = gh[g].pre.LastModified
              /\ (Returned(g) /\ ~gh[g].resp.err /\ gh[g].resp.status = 304)
                 => /\ ~gh[g].fetched
                    /\ ~loc[g].err /\ ~loc[g].updated
                    /\ osVersionsMap[OSTypeMac] = gh[g].pre

\* C13: LastModified of every entry never goes back: no step writes an
\* earlier time than the one stored.
C13_LastModifiedNeverGoesBack ==
    [][\A os \in OSTypes :
          osVersionsMap'[os].LastModified >= osVersionsMap[os].LastModified]_vars

\* A merge has replaced a LastModified written by an earlier merge with a
\* later time.
C13_Witness ==
    \E g \in Catalogs :
        /\ Merged(g)
        /\ gh[g].snap.entry.LastModified > 0
        /\ osVersionsMap[OSTypeMac].LastModified > gh[g].snap.entry.LastModified

\* C14: in every state the table has an entry for each of macOS, windows and
\* linux and for nothing else; a step of a caller of ReadVersions leaves the
\* table as it is; and a call with an identifier that is none of the three
\* returns nil, a call with one of them the entry.
C14_EveryKnownOSHasEntry ==
    [][ /\ DOMAIN osVersionsMap = {"macOS", "windows", "linux"}
        /\ DOMAIN osVersionsMap' = {"macOS", "windows", "linux"}
        /\ rpc' # rpc => osVersionsMap' = osVersionsMap
        /\ (rpc' = "have" /\ ros' \notin {"macOS", "windows", "linux"})
           => rptr' = "nil"
        /\ (rpc' = "have" /\ ros' \in {"macOS", "windows", "linux"})
           => rptr' = ros' ]_vars

\* ReadVersions was called with an unknown identifier and has returned, after
\* a merge changed the macOS entry.
C14_Witness ==
    /\ rpc = "have" /\ ros = "bsd"
    /\ DOMAIN osVersionsMap["macOS"].LatestVersions # {}

\* C15: when a cycle has returned, every response body its requests opened
\* has been closed.
C15_ResponseBodiesClosed ==
    \A g \in Catalogs : Returned(g) => gh[g].open = 0

\* C16: a step that begins a cycle begins one cycle, with no scrape goroutine
\* of an earlier cycle still running; the first cycle begins before mainLoop
\* has a ticker to wait on, and every later one takes one tick from the
\* ticker's channel.
C16_OneCycleAtATime ==
    [][cycles' # cycles
       => /\ cycles' = cycles + 1
          /\ swg = 0 /\ \A g \in Catalogs : pc[g] = "idle"
          /\ IF cycles = 0
             THEN ticker = "none" /\ ~tick /\ startpc = "first"
             ELSE ticker = "on" /\ tick /\ ~tick' /\ startpc = "select"]_vars

\* The second cycle has begun, on a tick, after the first one ran to its end.
C16_Witness ==
    /\ cycles = 2 /\ startpc = "wait"
    /\ \E g \in Catalogs : pc[g] = "begin"

\* C17: a scrape goroutine holds the store lock only between the Lock and the
\* Unlock of a merge: it holds it at no position where it requests or reads a
\* catalog or a distribution document or parses a version, nor when it
\* returns, and whenever it is between Lock and Unlock it is the holder.
C17_NoFetchUnderLock ==
    \A g \in Catalogs :
        /\ pc[g] \in {"idle", "begin", "catReq", "loop", "lock", "log", "panic"}
           => mtx.w # g
        /\ pc[g] \in {"wver", "wmod", "unlock"} => mtx.w = g /\ mtx.r = 0

\* A merge has released the lock and the loop has entries left to fetch.
C17_Witness ==
    \E g \in Catalogs :
        /\ pc[g] = "loop" /\ loc[g].changed
        /\ DOMAIN loc[g].productsMap # {}
        /\ mtx.w = 0

\* C18: a step in which a scrape goroutine reads or writes LatestVersions or
\* LastModified of the shared entry (the read of LastModified as the
\* precondition of the fetches, the test and the writes of a merge, the read
\* of both fields for the log entry) is taken with the goroutine holding the
\* store lock, or taking it in that step.
C18_AccessesUnderLock ==
    [][\A g \in Catalogs :
          ( /\ pc[g] \in {"begin", "lock", "wver", "wmod", "log"}
            /\ pc'[g] # pc[g] )
          => mtx'.w = g \/ mtx.w = g]_vars

\* The branch the chain has for a version, written on the segments: above
\* 10.13.0 HighSierra, else above 10.12.0 Sierra, else above 10.11.0
\* ElCapitan, else none.
BranchOfVersion(v) ==
    IF Below(<<10, 13, 0>>, v) THEN "HighSierra"
    ELSE IF Below(<<10, 12, 0>>, v) THEN "Sierra"
    ELSE IF Below(<<10, 11, 0>>, v) THEN "ElCapitan"
    ELSE "none"

LineOf(b) ==
    CASE b = "ElCapitan" -> 11
      [] b = "Sierra" -> 12
      [] b = "HighSierra" -> 13

\* C20: every version stored under a branch is of that branch's release line
\* (10.11.x under ElCapitan, 10.12.x under Sierra, 10.13.x under HighSierra),
\* and no entry that gave a version at or above 10.11.0 ended its iteration
\* without a merge.
C20_StoredUnderOwnLine ==
    /\ \A b \in DOMAIN Latest : Latest[b][1] = 10 /\ Latest[b][2] = LineOf(b)
    /\ \A g \in Catalogs : ~gh[g].lost

\* ---------------------------------------------------------------- C21
\* A document that was fetched and read and in which the version pattern has
\* no match.
NoVersionMatch(d) == ~d.err /\ d.status = StatusOK /\ d.readOk /\ ~d.hasVer
\* The title of the document is that of a macOS release: the title pattern
\* matches and the rest of the title has none of the discarded words.
TitleRecognised(d) ==
    /\ d.titlePrefix \in TitlePrefixes
    /\ \A i \in 1..Len(d.titleRest) : d.titleRest[i] \notin DiscardWords

\* C21, as stated: an entry whose fetched document has no match of the version
\* pattern is Absent, whether or not its title is recognised: the iteration
\* returns no error for it and reaches no arm of the chain.
C21_NoVersionIsAbsent ==
    \A i \in DOMAIN probe :
        NoVersionMatch(probe[i].doc)
            => probe[i].kind = "absent" /\ probe[i].branch = "none"

\* C21, amended: an entry whose fetched document has no match of the version
\* pattern reaches no arm of the chain, so that the store is unchanged by it;
\* it is Absent when its title is not that of a macOS release, and an error is
\* returned for it when its title is that of a macOS release.
C21_NoVersionAbsentOrError ==
    \A i \in DOMAIN probe :
        NoVersionMatch(probe[i].doc)
            => /\ probe[i].branch = "none"
               /\ probe[i].kind = IF TitleRecognised(probe[i].doc)
                                  THEN "fail" ELSE "absent"

\* Both cases side by side: a document without version whose title is not
\* recognised, and one whose title is recognised.
C21_Witness ==
    /\ probe # <<>>
    /\ NoVersionMatch(probe[1].doc) /\ ~TitleRecognised(probe[1].doc)
    /\ probe[1].kind = "absent"
    /\ NoVersionMatch(probe[2].doc) /\ TitleRecognised(probe[2].doc)
    /\ probe[2].kind = "fail"

\* ---------------------------------------------------------------- C22
\* Some branch has a version now that is above the one it had when the cycle
\* of g began, or that it did not have then.
Increased(g) ==
    \E b \in DOMAIN Latest :
        \/ b \notin DOMAIN gh[g].pre.LatestVersions
        \/ Below(gh[g].pre.LatestVersions[b], Latest[b])

\* No entry of the cycle of g so far gave a version above the one its branch
\* had when the cycle began: each was absent, failed, was below the oldest
\* major version or gave a version not greater than the stored one.
NothingNewOffered(g) == gh[g].expSucc = gh[g].pre.LatestVersions

\* C22: a cycle whose catalog was fetched and decoded returns no error; it
\* returns updated = true exactly when some branch version is above what it was
\* when the cycle began; when it returns updated = false the entry is as it was;
\* and it returns updated = false when no entry offered anything new.
C22_UpdatedIffVersionRaised ==
    \A g \in Catalogs :
        (Returned(g) /\ CatalogDecoded(g))
            => /\ ~loc[g].err
               /\ loc[g].updated <=> Increased(g)
               /\ ~loc[g].updated => Mac = gh[g].pre
               /\ NothingNewOffered(g) => ~loc[g].updated

\* A later cycle over a decoded catalog in which one entry failed and another
\* gave a version not above the stored one returns updated = false.
C22_Witness ==
    \E g \in Catalogs :
        /\ Returned(g) /\ CatalogDecoded(g)
        /\ DOMAIN gh[g].pre.LatestVersions # {}
        /\ gh[g].nFail > 0 /\ gh[g].nSucc > 0
        /\ NothingNewOffered(g)
        /\ ~loc[g].updated /\ ~loc[g].err

\* ---------------------------------------------------------------- C24
\* C24, as stated: in every reachable state, LastModified of the macOS entry is the zero
\* timestamp if and only if its map of branch versions is empty.
C24_ZeroIffNoVersions ==
    (Mac.LastModified = 0) <=> (DOMAIN Latest = {})

\* C24, amended: in every reachable state in which no merge holds the lock,
\* LastModified of the macOS entry is the zero timestamp if and only if its
\* map of branch versions is empty; a merge that leaves the versions as they
\* were leaves LastModified as it was, one that changes a version leaves a
\* LastModified that is not the zero timestamp, and a cycle that returns
\* updated = false leaves LastModified, the precondition of the next cycle's
\* requests, as it found it.
C24_ZeroIffNoVersionsOutsideMerge ==
    /\ mtx.w = 0 => C24_ZeroIffNoVersions
    /\ \A g \in Catalogs :
         Merged(g) =>
            IF Latest = gh[g].snap.entry.LatestVersions
            THEN Mac.LastModified = gh[g].snap.entry.LastModified
            ELSE Mac.LastModified # 0
    /\ \A g \in Catalogs :
         (Returned(g) /\ ~loc[g].updated)
            => Mac.LastModified = gh[g].pre.LastModified

\* A later cycle has downloaded the catalog, got a version from an entry and
\* raised nothing: the entry, no merge holding the lock, has versions and the
\* LastModified the cycle found.
C24_Witness ==
    \E g \in Catalogs :
        /\ mtx.w = 0
        /\ Returned(g) /\ CatalogDecoded(g) /\ gh[g].nSucc > 0
        /\ ~loc[g].updated
        /\ gh[g].pre.LastModified # 0 /\ DOMAIN Latest # {}
        /\ Mac.LastModified = gh[g].pre.LastModified

\* ---------------------------------------------------------------- C23
\* C23: every request returning, once the cancellation signal is raised the
\* polling loop eventually exits (mainLoop returns on ctx.Done) and the call
\* of Close eventually returns.
C23_CancelLeadsToExit ==
    ctxDone ~> (startpc = "done" /\ mainpc = "exited")

\* What does hold after the cancellation: the call of Close returns unless a
\* scrape goroutine panics first.
CancelLeadsToCloseOrPanic ==
    ctxDone ~> (mainpc = "exited" \/ panicked)

====
